---- MODULE Spec2Model ----
(***************************************************************************)
(* A model of src/src/NetworkNavigator.ts: the NetworkNavigator widget     *)
(* (selection, data replacement, configuration, filter, reflow) as a state *)
(* machine.  Every handler runs to completion before the next one is       *)
(* dispatched (single-threaded event loop); the only handler that is split *)
(* into steps is one that calls reflow(), whose loop is stepped one        *)
(* force.tick() at a time under the program counter pc.                    *)
(*                                                                         *)
(* Encodings.  Node objects are the integers 1..MaxNodes (object identity);*)
(* the per-link intermediate objects get the identities above MaxNodes.    *)
(* JavaScript's undefined is 0 for object references and positions.        *)
(* A position (x, y) is one abstract point 1..MaxCoord.  Strings are       *)
(* sequences of one-character strings.  gravity, minZoom and maxZoom are   *)
(* in tenths (gravity 1 is .1).  An optional number (a node's or link's    *)
(* value) is a sequence: <<>> when it is undefined or null, else <<v>>.    *)
(***************************************************************************)
EXTENDS Integers, Sequences, FiniteSets, TLC

\* ---------------------------------------------------------------- bounds
MaxNodes == 3
MaxLinks == 2
MaxCoord == 2
MaxNameLen == 2

\* ------------------------------------------------------ program constants
\* `undefined`: an empty reference, an attribute never written
Undefined == 0
\* reflow's iteration cap
MaxReflowTicks == 150
DEFAULT_NODE_SIZE == 10
DEFAULT_EDGE_SIZE == 1
\* the scale filterNodes gives a matching node, and a non-matching one
MatchScale == 3
NoMatchScale == 1

NodeIds == 1..MaxNodes
Points == 1..MaxCoord

\* the initial _configuration
DefaultConfiguration ==
    [animate |-> TRUE, linkDistance |-> 10, linkStrength |-> 2,
     charge |-> -120, gravity |-> 1, labels |-> FALSE, minZoom |-> 1,
     maxZoom |-> 1000, caseInsensitive |-> TRUE,
     defaultLabelColor |-> "blue", fontSizePT |-> 8]

\* the force layout the constructor builds: not started, no nodes
InitialForce ==
    [nodes |-> <<>>, links |-> <<>>, linkDistance |-> 10, linkStrength |-> 2,
     gravity |-> 1, charge |-> -120, alpha |-> "zero"]

\* this.graph before the first setData
NoGraph == [defined |-> FALSE, nodes |-> <<>>, links |-> <<>>]

VARIABLES
    nodeName,       \* node object -> its name (caller's data)
    nodeValue,      \* node object -> its value, the size hint (caller's data)
    radius,         \* per .node circle: its r attribute
    strokeWidth,    \* per .link element: its stroke-width
    linkLabelShown, \* per .linklabel text: whether its display style lets it show
    nodeLabelShown, \* per .node-label text: whether its display style lets it show
    selected,       \* node object -> its `selected` field
    pos,            \* node object -> its position (x, y), Undefined before the simulation places it
    selectedNode,   \* this._selectedNode
    graph,          \* this.graph
    zoom,           \* this.zoom: <<>> while undefined, else its scaleExtent <<min, max>>
    force,          \* this.force: nodes, links, parameters, alpha level
    tickRegistered, \* whether force.on("tick", tick) has been called
    bilinks,        \* the data bound to the .link elements of this.vis
    linkEnds,       \* per .link element: <<(x1,y1), (x2,y2)>>
    transform,      \* per .node element: its translate(x, y)
    scale,          \* per .node circle: its scale(), Undefined while never set
    dragging,       \* the node whose element carries class "dragging"
    config,         \* this._configuration
    newConfig,      \* the configuration setter's merged newConfig while it runs
    pc,             \* "idle", or the handler whose reflow() call is running
    k,              \* reflow's loop counter
    filterBox,      \* the text of .search-filter-box
    events,         \* the notifications raised by the handler that ran last
    tickWrites,     \* how many times the tick callback wrote in the last step
    hist,           \* the last two handlers, while only clicks and clear-selection presses run
    lastOp          \* the handler that ran last

selVars == <<selected, selectedNode>>
dataVars == <<graph, zoom, bilinks, dragging, tickRegistered>>
simVars == <<force, pos>>
drawVars == <<linkEnds, transform>>
cfgVars == <<config, newConfig>>
sizeVars == <<radius, strokeWidth>>
labelVars == <<linkLabelShown, nodeLabelShown>>
ctlVars == <<pc, k>>
vars == <<nodeName, nodeValue, sizeVars, labelVars, selVars,
          dataVars, simVars, drawVars, scale, cfgVars,
          ctlVars, filterBox, events, tickWrites, hist, lastOp>>

\* ---------------------------------------------------------------- helpers
Range(s) == {s[i] : i \in 1..Len(s)}

SeqsUpTo(S, n) == UNION {[1..m -> S] : m \in 0..n}

\* a handler that ran: its name, its node argument, its text argument, the
\* fields of its configuration argument (for filterNodes: "animate" when its
\* animate argument is true), the selection and the animate option it began
\* with, and how it ended ("done", "reflowed" after a reflow() call, "threw")
OpEntry(op, n, text, fields, outcome) ==
    [op |-> op, n |-> n, text |-> text, fields |-> fields,
     pre |-> selectedNode, anim |-> config.animate, outcome |-> outcome]

\* hist after a click or a clear-selection press e
Remember(e) == IF Len(hist) < 2 THEN Append(hist, e) ELSE <<hist[2], e>>

\* a handler that does not call reflow() leaves no reflow running
Idle == pc' = "idle" /\ k' = 0

\* ------------------------------------------------------------ input graphs
\* the ascending sequence of the node objects in S
RECURSIVE SortedSeq(_)
SortedSeq(S) ==
    IF S = {} THEN <<>>
    ELSE LET m == CHOOSE x \in S : \A y \in S : x <= y
         IN <<m>> \o SortedSeq(S \ {m})

\* a link refers to its endpoints by 0-based index into graph.nodes
LinksOver(n, values) == [source : 0..(n - 1), target : 0..(n - 1), value : values]

\* link weights the inputs carry: missing, or 2
LinkValues == {<<>>, <<2>>}

\* the graph of the node objects in S, in ascending order, with links ls
GraphOf(S, ls) == [nodes |-> SortedSeq(S), links |-> ls]

\* the link lists of m links with valid endpoints over n nodes
LinkLists(n, m) == [1..m -> LinksOver(n, LinkValues)]

\* --------------------------------------------------- selection and events
Event(name, payload) == [name |-> name, payload |-> payload]

\* a toggle that never clears: clicking the selected node keeps it selected
SelectionAfterNoToggle(n) == n

\* updateSelection: _selectedNode after the toggle on n
SelectionAfter(n) == IF n # selectedNode THEN n ELSE Undefined

\* a toggle that forgets to deselect the previous selection
SelectedAfterKeepPrevious(n) ==
    IF n # selectedNode
    THEN [m \in NodeIds |-> IF m = n THEN TRUE ELSE selected[m]]
    ELSE [m \in NodeIds |-> IF m = selectedNode THEN FALSE ELSE selected[m]]

\* updateSelection: the nodes' selected fields after the toggle on n
SelectedAfter(n) ==
    IF n # selectedNode
    THEN [m \in NodeIds |-> IF m = n THEN TRUE
                            ELSE IF m = selectedNode THEN FALSE
                            ELSE selected[m]]
    ELSE [m \in NodeIds |-> IF m = selectedNode THEN FALSE ELSE selected[m]]

\* an updateSelection that notifies with its argument, not with the selection
updateSelectionNotifiesArgument(n, raised) ==
    /\ selected' = SelectedAfter(n)
    /\ selectedNode' = SelectionAfter(n)
    /\ events' = Append(raised, Event("selectionChanged", n))

\* updateSelection(n), run after the handler has raised `raised`
updateSelection(n, raised) ==
    /\ selected' = SelectedAfter(n)
    /\ selectedNode' = SelectionAfter(n)
    /\ events' = Append(raised, Event("selectionChanged", selectedNode'))

\* onNodeClicked(n): a click on a node of the scene
onNodeClicked(n) ==
    /\ pc = "idle"
    /\ graph.defined /\ n \in Range(graph.nodes)
    /\ updateSelection(n, <<Event("nodeClicked", n)>>)
    /\ lastOp' = OpEntry("click", n, <<>>, {}, "done")
    /\ hist' = Remember(lastOp')
    /\ tickWrites' = 0
    /\ Idle
    /\ UNCHANGED <<nodeName, nodeValue, sizeVars, labelVars,
                   dataVars, simVars, drawVars, scale, cfgVars,
                   filterBox>>

\* ------------------------------------------------- the force layout (d3)
\* force.start(), force.resume(): alpha(.1), stepping begins
ForceStarted(f) == [f EXCEPT !.alpha = "high"]

\* force.stop(): alpha(0), stepping ends
ForceStopped(f) == [f EXCEPT !.alpha = "zero"]

\* alpha after one step: it decays, and stepping ends once it is spent
AlphaAfterTick(a) ==
    CASE a = "high" -> {"high", "low"}
      [] a = "low" -> {"low", "zero"}
      [] OTHER -> {"zero"}

\* the node objects of the caller that the simulation moves
SimulatedNodes == Range(force.nodes) \cap NodeIds

\* positions after one step: the simulation moves its nodes as it sees fit
PositionsAfterTick ==
    {[n \in NodeIds |-> IF n \in SimulatedNodes THEN p[n] ELSE pos[n]] :
         p \in [SimulatedNodes -> Points]}

\* ------------------------------------------------------- visual writes
\* link.attr x1, y1, x2, y2 from the bilink's source and target
LinkEndsAt(p) ==
    [i \in 1..Len(bilinks) |-> <<p[bilinks[i][1]], p[bilinks[i][3]]>>]

\* node.attr transform from the node's position
TransformAt(p) == [i \in 1..Len(graph.nodes) |-> p[graph.nodes[i]]]

\* a tick callback that writes whatever the animate option is
TickDrawsAlways == TRUE

\* whether the tick callback writes
TickDraws == config.animate

\* the tick callback of setData, with the nodes at positions p
tick(p) ==
    IF TickDraws
    THEN /\ linkEnds' = LinkEndsAt(p)
         /\ transform' = TransformAt(p)
         /\ tickWrites' = 1
    ELSE /\ UNCHANGED drawVars
         /\ tickWrites' = 0

\* the simulation dispatches "tick" to the registered callback, if any
DispatchTick(p) ==
    IF tickRegistered THEN tick(p)
    ELSE UNCHANGED drawVars /\ tickWrites' = 0

\* ------------------------------------------------- strings and patterns
\* the characters escapeRegExp prefixes with a backslash
MetaChars ==
    {"-", "[", "]", "/", "{", "}", "(", ")", "*", "+", "?", ".", "\\", "^",
     "$", "|"}

\* the characters that are syntax in a pattern when not escaped
SyntaxChars == MetaChars \ {"-", "/"}

\* a variant of escapeRegExp that escapes nothing
escapeRegExpIdentity(str) == str

\* escapeRegExp: str.replace(/[\-\[\]\/\{\}\(\)\*\+\?\.\\\^\$\|]/g, "\\$&")
RECURSIVE escapeRegExp(_)
escapeRegExp(str) ==
    IF str = <<>> THEN <<>>
    ELSE (IF Head(str) \in MetaChars THEN <<"\\", Head(str)>> ELSE <<Head(str)>>)
         \o escapeRegExp(Tail(str))

\* String.prototype.toUpperCase on one character, which the i flag compares by
ToUpperCase(c) ==
    CASE c = "a" -> "A" [] c = "b" -> "B" [] c = "e" -> "E" [] c = "h" -> "H"
      [] c = "l" -> "L" [] c = "p" -> "P" [] c = "t" -> "T"
      [] OTHER -> c

Token(kind, c) == [kind |-> kind, c |-> c]

\* new RegExp(pattern): the pattern's terms, or <<Token("invalid", ..)>> where
\* the constructor throws.  The subset read here: literal characters, \x for a
\* metacharacter x, ".", "^" and "$"; a pattern that uses any other syntax
\* (quantifier, group, class, alternation, \ before a letter or at the end)
\* is reported invalid.
RECURSIVE CompileFrom(_, _)
CompileFrom(pattern, i) ==
    IF i > Len(pattern) THEN <<>>
    ELSE LET c == pattern[i]
         IN IF c = "\\"
            THEN IF i < Len(pattern) /\ pattern[i + 1] \in MetaChars
                 THEN <<Token("lit", pattern[i + 1])>> \o CompileFrom(pattern, i + 2)
                 ELSE <<Token("invalid", c)>>
            ELSE IF c = "." THEN <<Token("any", c)>> \o CompileFrom(pattern, i + 1)
            ELSE IF c = "^" THEN <<Token("bol", c)>> \o CompileFrom(pattern, i + 1)
            ELSE IF c = "$" THEN <<Token("eol", c)>> \o CompileFrom(pattern, i + 1)
            ELSE IF c \in SyntaxChars THEN <<Token("invalid", c)>>
            ELSE <<Token("lit", c)>> \o CompileFrom(pattern, i + 1)

RegExp(pattern) == CompileFrom(pattern, 1)

IsValid(regex) == \A i \in 1..Len(regex) : regex[i].kind # "invalid"

SameChar(a, b, ignoreCase) ==
    IF ignoreCase THEN ToUpperCase(a) = ToUpperCase(b) ELSE a = b

\* whether terms t.. of regex match str from offset i on
RECURSIVE MatchFrom(_, _, _, _, _)
MatchFrom(regex, t, str, i, ignoreCase) ==
    IF t > Len(regex) THEN TRUE
    ELSE LET tok == regex[t]
         IN CASE tok.kind = "lit" ->
                    /\ i < Len(str)
                    /\ SameChar(str[i + 1], tok.c, ignoreCase)
                    /\ MatchFrom(regex, t + 1, str, i + 1, ignoreCase)
              [] tok.kind = "any" ->
                    /\ i < Len(str)
                    /\ MatchFrom(regex, t + 1, str, i + 1, ignoreCase)
              [] tok.kind = "bol" ->
                    i = 0 /\ MatchFrom(regex, t + 1, str, i, ignoreCase)
              [] tok.kind = "eol" ->
                    i = Len(str) /\ MatchFrom(regex, t + 1, str, i, ignoreCase)
              [] OTHER -> FALSE

\* a variant of regex.test(str) that only tries a match at the start of str
TestAtStart(regex, str, ignoreCase) == MatchFrom(regex, 1, str, 0, ignoreCase)

\* regex.test(str): a match anywhere in str
Test(regex, str, ignoreCase) ==
    \E i \in 0..Len(str) : MatchFrom(regex, 1, str, i, ignoreCase)

\* -------------------------------------------------------------- filterNodes
\* the pattern filterNodes builds for text
FilterRegExp(text) == RegExp(escapeRegExp(text))

\* a variant of ScaleFor without the `text &&` test
ScaleForAnyText(text, name, caseInsensitive) ==
    IF Test(FilterRegExp(text), name, caseInsensitive)
    THEN MatchScale
    ELSE NoMatchScale

\* the scale filterNodes computes for a node named name
ScaleFor(text, name, caseInsensitive) ==
    IF text # <<>> /\ Test(FilterRegExp(text), name, caseInsensitive)
    THEN MatchScale
    ELSE NoMatchScale

\* whether filterNodes(text) throws: new RegExp fails, for the first circle
FilterThrows(text) == Len(graph.nodes) > 0 /\ ~IsValid(FilterRegExp(text))

\* the case mode filterNodes reads: this.configuration.caseInsensitive
FilterIgnoresCase == config.caseInsensitive

\* the circles' scale after filterNodes(text)
ScalesAfterFilter(text) ==
    IF FilterThrows(text) THEN scale
    ELSE [i \in 1..Len(graph.nodes) |->
             ScaleFor(text, nodeName[graph.nodes[i]], FilterIgnoresCase)]

\* filterNodes(text, animate): animate only chooses whether the circles reach
\* their scale through a transition
filterNodes(text, animate) ==
    /\ pc = "idle"
    /\ scale' = ScalesAfterFilter(text)
    /\ lastOp' = OpEntry("filterNodes", Undefined, text,
                         IF animate THEN {"animate"} ELSE {},
                         IF FilterThrows(text) THEN "threw" ELSE "done")
    /\ events' = <<>>
    /\ hist' = <<>>
    /\ tickWrites' = 0
    /\ Idle
    /\ UNCHANGED <<nodeName, nodeValue, sizeVars, labelVars,
                   selVars, dataVars, simVars, drawVars, cfgVars,
                   filterBox>>

\* the "input" handler of the search box: the user has typed text
FilterBoxInput(text) ==
    /\ pc = "idle"
    /\ filterBox' = text
    /\ scale' = ScalesAfterFilter(text)
    /\ lastOp' = OpEntry("filterInput", Undefined, text, {},
                         IF FilterThrows(text) THEN "threw" ELSE "done")
    /\ events' = <<>>
    /\ hist' = <<>>
    /\ tickWrites' = 0
    /\ Idle
    /\ UNCHANGED <<nodeName, nodeValue, sizeVars, labelVars,
                   selVars, dataVars, simVars, drawVars, cfgVars>>

\* the "click" handler of .clear-selection
ClearSelection ==
    /\ pc = "idle"
    /\ filterBox' = <<>>
    /\ scale' = ScalesAfterFilter(<<>>)
    /\ IF FilterThrows(<<>>)
       THEN UNCHANGED selVars /\ events' = <<>>
       ELSE updateSelection(Undefined, <<>>)
    /\ lastOp' = OpEntry("clear", Undefined, <<>>, {},
                         IF FilterThrows(<<>>) THEN "threw" ELSE "done")
    /\ hist' = Remember(lastOp')
    /\ tickWrites' = 0
    /\ Idle
    /\ UNCHANGED <<nodeName, nodeValue, sizeVars, labelVars,
                   dataVars, simVars, drawVars, cfgVars>>

\* ------------------------------------------------------------------ reflow
\* a loop test that lets the counter reach the cap before it stops
ReflowContinuesOffByOne == force.alpha = "high" /\ k <= MaxReflowTicks

\* reflow's loop test
ReflowContinues == force.alpha = "high" /\ k < MaxReflowTicks

\* reflow begins: k = 0, force.start()
BeginReflow(f, caller) ==
    /\ force' = ForceStarted(f)
    /\ pc' = caller
    /\ k' = 0

\* one pass of reflow's loop: force.tick(), which moves the nodes and
\* dispatches "tick", then k = k + 1
ReflowTick ==
    /\ pc # "idle"
    /\ ReflowContinues
    /\ \E a \in AlphaAfterTick(force.alpha), p \in PositionsAfterTick :
          /\ force' = [force EXCEPT !.alpha = a]
          /\ pos' = p
          /\ DispatchTick(p)
    /\ k' = k + 1
    /\ UNCHANGED <<nodeName, nodeValue, sizeVars, labelVars,
                   selVars, dataVars, scale, cfgVars, filterBox,
                   events, hist, lastOp, pc>>

\* what reflow writes once its loop has ended
ReflowLinkEnds == LinkEndsAt(pos)
ReflowTransform == TransformAt(pos)

\* the end of reflow: force.stop(), then the unconditional visual write
EndReflow ==
    /\ ~ReflowContinues
    /\ force' = ForceStopped(force)
    /\ linkEnds' = ReflowLinkEnds
    /\ transform' = ReflowTransform
    /\ UNCHANGED <<pos, k>>

\* ----------------------------------------------------------------- setData
\* one intermediate object made before the loop and shared by every link
IntermediateShared(i) == MaxNodes + 1

\* let i = {}: the intermediate node object made for the i-th link (1-based)
Intermediate(i) == MaxNodes + i

\* nodes[link.source], nodes[link.target]
SourceOf(g, i) == g.nodes[g.links[i].source + 1]
TargetOf(g, i) == g.nodes[g.links[i].target + 1]

\* nodes after the forEach: graph.nodes.slice() with one intermediate pushed per link
WorkingNodes(g) == g.nodes \o [i \in 1..Len(g.links) |-> Intermediate(i)]

\* links after the forEach: two pushed per link, in link order
WorkingLinks(g) ==
    [j \in 1..(2 * Len(g.links)) |->
        LET i == (j + 1) \div 2
        IN IF j % 2 = 1
           THEN [source |-> SourceOf(g, i), target |-> Intermediate(i)]
           ELSE [source |-> Intermediate(i), target |-> TargetOf(g, i)]]

\* bilinks after the forEach: [s, i, t, w] per link
Bilinks(g) ==
    [i \in 1..Len(g.links) |->
        <<SourceOf(g, i), Intermediate(i), TargetOf(g, i), g.links[i].value>>]

\* a radius callback that hands a given hint through as it is
RadiusOfUnfloored(h) == IF h = <<>> THEN DEFAULT_NODE_SIZE ELSE h[1]

\* the r attribute of a circle whose node has value h
RadiusOf(h) ==
    IF h = <<>> THEN DEFAULT_NODE_SIZE
    ELSE IF h[1] > 0 THEN h[1] ELSE 0

\* the stroke-width of a link whose bilink has weight h
StrokeWidthOf(h) ==
    IF h = <<>> THEN DEFAULT_EDGE_SIZE
    ELSE IF h[1] > 0 THEN h[1] ELSE 0

\* setData(graph) up to its reflow() call, or to its end when animate is on
setData(g) ==
    /\ pc = "idle"
    /\ graph' = [defined |-> TRUE, nodes |-> g.nodes, links |-> g.links]
    /\ zoom' = <<config.minZoom, config.maxZoom>>
    /\ bilinks' = Bilinks(g)
    /\ dragging' = Undefined
    /\ linkEnds' = [i \in 1..Len(g.links) |-> <<Undefined, Undefined>>]
    /\ transform' = [i \in 1..Len(g.nodes) |-> Undefined]
    /\ scale' = [i \in 1..Len(g.nodes) |-> Undefined]
    /\ LET f == [force EXCEPT !.nodes = WorkingNodes(g), !.links = WorkingLinks(g)]
       IN IF config.animate
          THEN /\ force' = ForceStarted(f)
               /\ tickRegistered' = TRUE
               /\ lastOp' = OpEntry("setData", Undefined, <<>>, {}, "done")
               /\ Idle
          ELSE /\ BeginReflow(f, "setData")
               /\ lastOp' = OpEntry("setData", Undefined, <<>>, {}, "reflowed")
               /\ UNCHANGED tickRegistered
    /\ hist' = <<>>
    /\ events' = <<>>
    /\ tickWrites' = 0
    /\ strokeWidth' = [i \in 1..Len(g.links) |-> StrokeWidthOf(g.links[i].value)]
    /\ radius' = [i \in 1..Len(g.nodes) |-> RadiusOf(nodeValue[g.nodes[i]])]
    /\ linkLabelShown' = [i \in 1..Len(g.links) |-> TRUE]
    /\ nodeLabelShown' = [i \in 1..Len(g.nodes) |-> config.labels]
    /\ UNCHANGED <<nodeName, nodeValue, selVars, pos, cfgVars, filterBox>>

\* setData from the end of its reflow() call: force.on("tick", tick)
setDataResume ==
    /\ pc = "setData"
    /\ EndReflow
    /\ tickRegistered' = TRUE
    /\ pc' = "idle"
    /\ tickWrites' = 0
    /\ UNCHANGED <<nodeName, nodeValue, sizeVars, labelVars,
                   selVars, graph, zoom, bilinks, dragging, scale,
                   cfgVars, filterBox, events, hist, lastOp>>

\* ------------------------------------------------ asynchronous stepping
\* one step of the running simulation, from d3's timer
SimulationTick ==
    /\ pc = "idle"
    /\ force.alpha # "zero"
    /\ \E a \in AlphaAfterTick(force.alpha) :
          /\ force' = [force EXCEPT !.alpha = a]
          /\ IF a = "zero"
             THEN UNCHANGED <<pos, drawVars>> /\ tickWrites' = 0
             ELSE \E p \in PositionsAfterTick : pos' = p /\ DispatchTick(p)
    /\ lastOp' = OpEntry("tick", Undefined, <<>>, {}, "done")
    /\ events' = <<>>
    /\ hist' = <<>>
    /\ Idle
    /\ UNCHANGED <<nodeName, nodeValue, sizeVars, labelVars,
                   selVars, dataVars, scale, cfgVars, filterBox>>

\* ------------------------------------------------------------------- drag
\* "dragstart" on the element of node n
DragStart(n) ==
    /\ pc = "idle"
    /\ graph.defined /\ n \in Range(graph.nodes)
    /\ dragging = Undefined
    /\ dragging' = n
    /\ force' = ForceStopped(force)
    /\ lastOp' = OpEntry("dragstart", n, <<>>, {}, "done")
    /\ events' = <<>>
    /\ hist' = <<>>
    /\ tickWrites' = 0
    /\ Idle
    /\ UNCHANGED <<nodeName, nodeValue, sizeVars, labelVars,
                   selVars, graph, zoom, bilinks, tickRegistered,
                   pos, drawVars, scale, cfgVars, filterBox>>

\* "drag" on the dragged node, the pointer at point p
Drag(p) ==
    /\ pc = "idle"
    /\ dragging # Undefined
    /\ pos' = [pos EXCEPT ![dragging] = p]
    /\ tick(pos')
    /\ lastOp' = OpEntry("drag", dragging, <<>>, {}, "done")
    /\ events' = <<>>
    /\ hist' = <<>>
    /\ Idle
    /\ UNCHANGED <<nodeName, nodeValue, sizeVars, labelVars,
                   selVars, dataVars, force, scale, cfgVars,
                   filterBox>>

\* a dragend handler that resumes whatever the animate option is
ResumeOnDragEndAlways == TRUE

\* dragend's test: me.configuration.animate
ResumeOnDragEnd == config.animate

\* "dragend" on the dragged node
DragEnd ==
    /\ pc = "idle"
    /\ dragging # Undefined
    /\ dragging' = Undefined
    /\ force' = IF ResumeOnDragEnd THEN ForceStarted(force) ELSE force
    /\ lastOp' = OpEntry("dragend", dragging, <<>>, {}, "done")
    /\ events' = <<>>
    /\ hist' = <<>>
    /\ tickWrites' = 0
    /\ Idle
    /\ UNCHANGED <<nodeName, nodeValue, sizeVars, labelVars,
                   selVars, graph, zoom, bilinks, tickRegistered,
                   pos, drawVars, scale, cfgVars, filterBox>>

\* ------------------------------------------------------------------ hover
\* whether the first text element of the svg, in document order, is a link
\* label: the .link elements and their texts are appended before the nodes
FirstTextIsLinkLabel == Len(linkLabelShown) > 0

\* the label texts after d3.select(find("svg text")[0]).style("display", ..)
\* has made the first text element shown, or hidden
LinkLabelsAfterHover(shown) ==
    IF FirstTextIsLinkLabel
    THEN [linkLabelShown EXCEPT ![1] = shown]
    ELSE linkLabelShown

NodeLabelsAfterHover(shown) ==
    IF ~FirstTextIsLinkLabel /\ Len(nodeLabelShown) > 0
    THEN [nodeLabelShown EXCEPT ![1] = shown]
    ELSE nodeLabelShown

\* "mouseover" on the element of node n
MouseOver(n) ==
    /\ pc = "idle"
    /\ graph.defined /\ n \in Range(graph.nodes)
    /\ linkLabelShown' = LinkLabelsAfterHover(TRUE)
    /\ nodeLabelShown' = NodeLabelsAfterHover(TRUE)
    /\ lastOp' = OpEntry("mouseover", n, <<>>, {}, "done")
    /\ events' = <<>>
    /\ hist' = <<>>
    /\ tickWrites' = 0
    /\ Idle
    /\ UNCHANGED <<nodeName, nodeValue, sizeVars, selVars, dataVars, simVars,
                   drawVars, scale, cfgVars, filterBox>>

\* "mouseout" on the element of node n
MouseOut(n) ==
    /\ pc = "idle"
    /\ graph.defined /\ n \in Range(graph.nodes)
    /\ IF ~config.labels
       THEN /\ linkLabelShown' = LinkLabelsAfterHover(FALSE)
            /\ nodeLabelShown' = NodeLabelsAfterHover(FALSE)
       ELSE UNCHANGED labelVars
    /\ lastOp' = OpEntry("mouseout", n, <<>>, {}, "done")
    /\ events' = <<>>
    /\ hist' = <<>>
    /\ tickWrites' = 0
    /\ Idle
    /\ UNCHANGED <<nodeName, nodeValue, sizeVars, selVars, dataVars, simVars,
                   drawVars, scale, cfgVars, filterBox>>

\* ------------------------------------------------------------- dimensions
\* the dimensions setter after construction: force.size(..), force.resume()
\* (the sizes themselves are not part of the model)
SetDimensions ==
    /\ pc = "idle"
    /\ force' = ForceStarted(force)
    /\ lastOp' = OpEntry("dimensions", Undefined, <<>>, {}, "done")
    /\ events' = <<>>
    /\ hist' = <<>>
    /\ tickWrites' = 0
    /\ Idle
    /\ UNCHANGED <<nodeName, nodeValue, sizeVars, labelVars,
                   selVars, dataVars, pos, drawVars, scale, cfgVars,
                   filterBox>>

\* ----------------------------------------------------------- configuration
\* CONSTANTS.linkDistance, .linkStrength, .charge, .gravity of ./constants
ForceBounds ==
    [linkDistance |-> [min |-> 1, max |-> 30, default |-> 10],
     linkStrength |-> [min |-> 1, max |-> 20, default |-> 2],
     charge |-> [min |-> -100000, max |-> 10, default |-> -120],
     gravity |-> [min |-> 1, max |-> 100, default |-> 1]]

\* the order in which the setter offers the fields to updateForceConfig
ForceFields == <<"linkDistance", "linkStrength", "charge", "gravity">>

Min(a, b) == IF a <= b THEN a ELSE b
Max(a, b) == IF a >= b THEN a ELSE b

\* $.extend(true, {}, this._configuration, newConfig)
Merge(cur, patch) ==
    [f \in DOMAIN cur |-> IF f \in DOMAIN patch THEN patch[f] ELSE cur[f]]

\* an updateForceConfig that forgets the lower bound
PushedValueNoMin(name, v) ==
    LET b == ForceBounds[name]
        capped == IF b.max # 0 THEN Min(v, b.max) ELSE v
    IN IF capped # 0 THEN capped ELSE b.default

\* updateForceConfig: the value it hands to this.force[name]
PushedValue(name, v) ==
    LET b == ForceBounds[name]
        capped == IF b.max # 0 THEN Min(v, b.max) ELSE v
        newValue == IF b.min # 0 THEN Max(capped, b.min) ELSE capped
    IN IF newValue # 0 THEN newValue ELSE b.default

\* updateForceConfig's test: newConfig[name] !== this._configuration[name]
FieldChanged(name, cur, new) == new[name] # cur[name]

\* runStart when the i-th line `runStart = runStart || updateForceConfig(..)`
\* is reached: true once an earlier call has returned true
RunStartBefore(i, cur, new) ==
    \E j \in 1..(i - 1) : FieldChanged(ForceFields[j], cur, new)

\* whether the i-th line calls updateForceConfig at all
Offered(i, cur, new) == ~RunStartBefore(i, cur, new)

\* the fields updateForceConfig pushes to the force
PushedFields(cur, new) ==
    {ForceFields[i] : i \in {j \in 1..Len(ForceFields) :
        Offered(j, cur, new) /\ FieldChanged(ForceFields[j], cur, new)}}

\* runStart after the four lines
RunStart(cur, new) == RunStartBefore(Len(ForceFields) + 1, cur, new)

\* the force after the four lines
ForceAfterUpdate(f, cur, new) ==
    [x \in DOMAIN f |->
        IF x \in PushedFields(cur, new) THEN PushedValue(x, new[x]) ELSE f[x]]

\* newConfig.fontSizePT = newConfig.fontSizePT || 8, when fontSizePT changes
FontFixed(cur, new) ==
    IF new.fontSizePT # cur.fontSizePT /\ new.fontSizePT = 0
    THEN [new EXCEPT !.fontSizePT = 8]
    ELSE new

\* the setter from its labels test on: the filter re-run, the font size, and
\* this._configuration = newConfig
ConfigurationTail(new) ==
    /\ nodeLabelShown' = IF new.labels # config.labels
                         THEN [i \in 1..Len(nodeLabelShown) |-> new.labels]
                         ELSE nodeLabelShown
    /\ scale' = IF new.caseInsensitive # config.caseInsensitive
                THEN ScalesAfterFilter(filterBox)
                ELSE scale
    /\ config' = FontFixed(config, new)
    /\ newConfig' = FontFixed(config, new)

\* the configuration setter, up to its reflow() call or to its end
SetConfiguration(patch) ==
    /\ pc = "idle"
    /\ LET new == Merge(config, patch)
           f == ForceAfterUpdate(force, config, new)
           zoomChanged == new.minZoom # config.minZoom \/ new.maxZoom # config.maxZoom
       IN IF zoomChanged /\ zoom = <<>>
          THEN \* this.zoom is undefined: scaleExtent throws, the setter ends here
               /\ force' = f
               /\ lastOp' = OpEntry("configuration", Undefined, <<>>, DOMAIN patch, "threw")
               /\ Idle
               /\ UNCHANGED <<zoom, scale, cfgVars, nodeLabelShown>>
          ELSE /\ zoom' = IF zoomChanged THEN <<new.minZoom, new.maxZoom>> ELSE zoom
               /\ IF ~new.animate /\ RunStart(config, new)
                  THEN /\ BeginReflow(ForceStopped(f), "configuration")
                       /\ newConfig' = new
                       /\ lastOp' = OpEntry("configuration", Undefined, <<>>, DOMAIN patch, "reflowed")
                       /\ UNCHANGED <<scale, config, nodeLabelShown>>
                  ELSE /\ force' = IF new.animate
                                   THEN IF RunStart(config, new) \/ ~config.animate
                                        THEN ForceStarted(f) ELSE f
                                   ELSE ForceStopped(f)
                       /\ ConfigurationTail(new)
                       /\ lastOp' = OpEntry("configuration", Undefined, <<>>, DOMAIN patch, "done")
                       /\ Idle
    /\ events' = <<>>
    /\ hist' = <<>>
    /\ tickWrites' = 0
    /\ UNCHANGED <<nodeName, nodeValue, sizeVars, linkLabelShown, selVars,
                   graph, bilinks, dragging, tickRegistered,
                   pos, drawVars, filterBox>>

\* the configuration setter from the end of its reflow() call
SetConfigurationResume ==
    /\ pc = "configuration"
    /\ EndReflow
    /\ ConfigurationTail(newConfig)
    /\ pc' = "idle"
    /\ tickWrites' = 0
    /\ UNCHANGED <<nodeName, nodeValue, sizeVars, linkLabelShown, selVars,
                   dataVars, filterBox, events, hist, lastOp>>

\* ------------------------------------------------------------------ inputs
Alpha == <<"A", "l", "p", "h", "a">>
Beta == <<"B", "e", "t", "a">>

\* the names of the caller's node objects: "Alpha", "Beta", the rest unnamed
ScenarioNames ==
    [n \in NodeIds |-> IF n = 1 THEN Alpha ELSE IF n = 2 THEN Beta ELSE <<>>]

\* the values of the caller's node objects: node 1 without one, the rest 2
ScenarioValues == [n \in NodeIds |-> IF n = 1 THEN <<>> ELSE <<2>>]

\* nodes A, B and one link A -> B of weight 2
ScenarioGraph ==
    [nodes |-> <<1, 2>>, links |-> <<[source |-> 0, target |-> 1, value |-> <<2>>]>>]

\* the nodes the filter is tried on: node 1, "Beta", and an unnamed node
FilterGraph == [nodes |-> <<1, 2, 3>>, links |-> <<>>]

\* the search texts and node names the filter is tried on: every string of
\* up to MaxNameLen letters a and A, the scenario's names, and strings that
\* hold metacharacters
FilterChars == {"a", "A"}
MetaTexts ==
    {<<"^">>, <<"a", "^">>, <<"\\">>, <<"a", ".">>, <<"(", "a">>, <<"a", "*">>}
Texts == SeqsUpTo(FilterChars, MaxNameLen) \cup {Alpha, Beta} \cup MetaTexts

\* the configuration updates tried on the force parameters
ForcePatches ==
    {[linkDistance |-> 20], [linkDistance |-> 10], [charge |-> -50],
     [charge |-> -120], [linkDistance |-> 20, charge |-> -50],
     [linkStrength |-> 5, gravity |-> 2], [linkStrength |-> 2, gravity |-> 1],
     [linkDistance |-> 50], [minZoom |-> 2], [linkDistance |-> 0],
     [charge |-> 0], [charge |-> 20], [gravity |-> 0]}

\* the configuration updates tried while the simulation runs
SimPatches ==
    {[animate |-> FALSE], [animate |-> TRUE], [linkDistance |-> 10],
     [animate |-> FALSE, linkDistance |-> 20]}

\* the size hints tried: none, zero, a negative one and a positive one
SizeHints == {<<>>, <<0>>, <<-1>>, <<2>>}

LabelPatches == {[labels |-> FALSE], [labels |-> TRUE]}

CasePatches == {[caseInsensitive |-> FALSE], [caseInsensitive |-> TRUE]}

\* ------------------------------------------------------- the specifications
\* the widget as the constructor leaves it, the caller's nodes named names
InitOf(names, values) ==
    /\ nodeName = names
    /\ nodeValue = values
    /\ radius = <<>>
    /\ strokeWidth = <<>>
    /\ linkLabelShown = <<>>
    /\ nodeLabelShown = <<>>
    /\ selected = [n \in NodeIds |-> FALSE]
    /\ pos = [n \in NodeIds |-> Undefined]
    /\ selectedNode = Undefined
    /\ graph = NoGraph
    /\ zoom = <<>>
    /\ force = InitialForce
    /\ tickRegistered = FALSE
    /\ bilinks = <<>>
    /\ linkEnds = <<>>
    /\ transform = <<>>
    /\ scale = <<>>
    /\ dragging = Undefined
    /\ config = DefaultConfiguration
    /\ newConfig = DefaultConfiguration
    /\ pc = "idle"
    /\ k = 0
    /\ filterBox = <<>>
    /\ events = <<>>
    /\ tickWrites = 0
    /\ hist = <<>>
    /\ lastOp = [op |-> "constructor", n |-> Undefined, text |-> <<>>,
                 fields |-> {}, pre |-> Undefined, anim |-> TRUE,
                 outcome |-> "done"]

\* the widget as the constructor leaves it, the nodes named names and sized
\* as in the scenario
InitWith(names) == InitOf(names, ScenarioValues)

Init == InitWith(ScenarioNames)

\* clicks, the clear-selection control and data replacement
Next ==
    \/ \E n \in NodeIds : onNodeClicked(n)
    \/ ClearSelection
    \/ \E S \in SUBSET NodeIds : setData(GraphOf(S, <<>>))

Spec == Init /\ [][Next]_vars

\* setData on every input graph: the first call takes any graph, a later
\* call sets the same data again
NextData ==
    \/ /\ ~graph.defined
       /\ \E S \in SUBSET NodeIds, m \in 0..MaxLinks :
             \E ls \in LinkLists(Cardinality(S), m) : setData(GraphOf(S, ls))
    \/ graph.defined /\ setData([nodes |-> graph.nodes, links |-> graph.links])

SpecData == Init /\ [][NextData]_vars

\* configuration updates of the force parameters, before and after data
NextConfig ==
    \/ \E p \in ForcePatches : SetConfiguration(p)
    \/ setData(ScenarioGraph)

SpecConfig == Init /\ [][NextConfig]_vars

\* the simulation: data, animate on and off, reflow, ticks, drag, resize
NextSim ==
    \/ setData(ScenarioGraph)
    \/ setDataResume
    \/ \E p \in SimPatches : SetConfiguration(p)
    \/ SetConfigurationResume
    \/ ReflowTick
    \/ SimulationTick
    \/ \E n \in NodeIds : DragStart(n)
    \/ \E p \in Points : Drag(p)
    \/ DragEnd
    \/ SetDimensions

SpecSim == Init /\ [][NextSim]_vars

\* the filter: any name for node 1, any search text, both case modes
InitFilter ==
    \E name \in Texts : InitWith([ScenarioNames EXCEPT ![1] = name])

NextFilter ==
    \/ setData(FilterGraph)
    \/ \E text \in Texts : FilterBoxInput(text)
    \/ \E text \in {<<>>, <<"a">>}, animate \in BOOLEAN : filterNodes(text, animate)
    \/ ClearSelection
    \/ \E p \in CasePatches : SetConfiguration(p)

SpecFilter == InitFilter /\ [][NextFilter]_vars

\* sizes: node 1 with any size hint, data with at most one link of any weight
InitSizes ==
    \E h \in SizeHints : InitOf(ScenarioNames, [ScenarioValues EXCEPT ![1] = h])

NextSizes ==
    \/ /\ ~graph.defined
       /\ \E S \in SUBSET NodeIds, m \in {0, 1} :
             \E ls \in [1..m -> LinksOver(Cardinality(S), SizeHints)] :
                setData(GraphOf(S, ls))
    \/ graph.defined /\ setData([nodes |-> graph.nodes, links |-> graph.links])

SpecSizes == InitSizes /\ [][NextSizes]_vars

\* hover: data with and without links, the pointer entering, leaving and
\* clicking nodes, the labels option on and off
NextHover ==
    \/ setData(ScenarioGraph)
    \/ \E S \in SUBSET NodeIds : setData(GraphOf(S, <<>>))
    \/ \E n \in NodeIds : MouseOver(n)
    \/ \E n \in NodeIds : MouseOut(n)
    \/ \E n \in NodeIds : onNodeClicked(n)
    \/ \E p \in LabelPatches : SetConfiguration(p)

SpecHover == Init /\ [][NextHover]_vars

\* ================================================================= claims
\* C1: starting from an empty selection, a click on A followed by a click on
\* A leaves the selection empty and A.selected false; a click on A followed
\* by a click on a distinct B leaves B the selected node, B.selected true
\* and A.selected false.
C1_TogglePairs ==
    \A a, b \in NodeIds :
        (/\ Len(hist) = 2
         /\ hist[1].op = "click" /\ hist[1].n = a /\ hist[1].pre = Undefined
         /\ hist[2].op = "click" /\ hist[2].n = b)
        => IF a = b
           THEN selectedNode = Undefined /\ ~selected[a]
           ELSE selectedNode = b /\ selected[b] /\ ~selected[a]

\* a click on A, from an empty selection, then a click on another node B
C1_Witness ==
    /\ Len(hist) = 2
    /\ hist[1].op = "click" /\ hist[1].pre = Undefined
    /\ hist[2].op = "click" /\ hist[2].n # hist[1].n
    /\ selectedNode = hist[2].n

\* C2: in every state reached by clicks, clear-selection presses and data
\* replacements, at most one node has selected = true, and a node has
\* selected = true exactly when it is the node in _selectedNode.
C2_SingleSelection ==
    /\ Cardinality({n \in NodeIds : selected[n]}) <= 1
    /\ \A n \in NodeIds : selected[n] <=> (n = selectedNode)

\* a node is selected, and data that no longer holds it has been set since
C2_Witness ==
    /\ lastOp.op = "setData"
    /\ selectedNode # Undefined
    /\ selected[selectedNode]
    /\ selectedNode \notin Range(graph.nodes)

\* C3: every onNodeClicked(n) raises exactly one "nodeClicked" carrying n and
\* exactly one "selectionChanged" carrying the selection after the toggle:
\* n when n was not selected before, nothing when n was the selected node.
C3_ClickEvents ==
    lastOp.op = "click" =>
        /\ events = <<Event("nodeClicked", lastOp.n),
                      Event("selectionChanged",
                            IF lastOp.pre = lastOp.n THEN Undefined ELSE lastOp.n)>>
        /\ events[2].payload = selectedNode

\* a click on the node that was already selected
C3_Witness ==
    /\ lastOp.op = "click"
    /\ lastOp.pre = lastOp.n
    /\ Len(events) = 2

\* C4: for every input graph with valid link endpoints, setData hands the
\* simulation |nodes| + |links| nodes and 2 * |links| links and builds |links|
\* bilinks; the i-th bilink is [nodes[source_i], mid_i, nodes[target_i],
\* value_i] with mid_i a fresh intermediate node of its own, and its two
\* working links are (source -> mid_i) and (mid_i -> target).
C4_WorkingGraph ==
    graph.defined =>
        LET n == Len(graph.nodes)
            m == Len(graph.links)
        IN /\ Len(force.nodes) = n + m
           /\ Len(force.links) = 2 * m
           /\ Len(bilinks) = m
           /\ \A i \in 1..n : force.nodes[i] = graph.nodes[i]
           /\ \A i \in 1..m :
                 LET s == graph.nodes[graph.links[i].source + 1]
                     t == graph.nodes[graph.links[i].target + 1]
                     mid == force.nodes[n + i]
                 IN /\ bilinks[i] = <<s, mid, t, graph.links[i].value>>
                    /\ mid \notin Range(graph.nodes)
                    /\ \A j \in 1..m : j # i => force.nodes[n + j] # mid
                    /\ force.links[2 * i - 1] = [source |-> s, target |-> mid]
                    /\ force.links[2 * i] = [source |-> mid, target |-> t]

\* data with two links between different pairs of nodes has been set
C4_Witness ==
    /\ graph.defined
    /\ Len(graph.links) = 2
    /\ Len(bilinks) = 2
    /\ bilinks[1][1] # bilinks[2][1]
    /\ bilinks[1][3] # bilinks[1][1]

\* C5: from the same starting state, setting {linkDistance: 20} and then
\* {charge: -50} leaves the simulation with the same linkDistance,
\* linkStrength, charge and gravity as setting {linkDistance: 20, charge: -50}
\* in one call; and after an update that changed several force fields, every
\* changed field's value has been pushed to the simulation.
C5_MergeAssociative ==
    LET first == [linkDistance |-> 20]
        second == [charge |-> -50]
        both == [linkDistance |-> 20, charge |-> -50]
        c1 == Merge(config, first)
        f1 == ForceAfterUpdate(force, config, c1)
        c2 == Merge(c1, second)
        f2 == ForceAfterUpdate(f1, c1, c2)
        cb == Merge(config, both)
        fb == ForceAfterUpdate(force, config, cb)
    IN /\ \A i \in 1..Len(ForceFields) : f2[ForceFields[i]] = fb[ForceFields[i]]
       /\ (lastOp.op = "configuration" /\ lastOp.outcome # "threw")
            => \A x \in lastOp.fields \cap Range(ForceFields) :
                   force[x] = PushedValue(x, config[x])

\* C6: reflow ends after at most 150 calls of force.tick(), makes no call once
\* alpha is not above 1e-2, leaves the simulation stopped, and when the
\* handler that called it returns every edge's endpoints are the positions of
\* its bilink's source and target and every node's transform is its position,
\* whatever the animate option.
C6_ReflowState ==
    /\ k <= MaxReflowTicks
    /\ (pc = "idle" /\ lastOp.outcome = "reflowed") =>
          /\ force.alpha = "zero"
          /\ Len(linkEnds) = Len(bilinks)
          /\ \A i \in 1..Len(bilinks) :
                linkEnds[i] = <<pos[bilinks[i][1]], pos[bilinks[i][3]]>>
          /\ Len(transform) = Len(graph.nodes)
          /\ \A i \in 1..Len(graph.nodes) : transform[i] = pos[graph.nodes[i]]

C6_ReflowStep ==
    (pc # "idle" /\ k' # k) =>
        /\ k' = k + 1
        /\ k < MaxReflowTicks
        /\ force.alpha = "high"

C6_ReflowTerminates == []C6_ReflowState /\ [][C6_ReflowStep]_vars

\* a reflow that ran into its cap of 150 calls has returned, the two nodes
\* of the graph at different positions
C6_Witness ==
    /\ pc = "idle"
    /\ lastOp.outcome = "reflowed"
    /\ k = MaxReflowTicks
    /\ Len(bilinks) = 1
    /\ linkEnds[1][1] # linkEnds[1][2]
    /\ transform[1] # Undefined

\* C7 as stated: after data has been set with animate on, setting
\* {animate: false} alone stops the simulation and runs one settle pass, and
\* no later call of the tick callback writes.
C7_SettleOnAnimateOff ==
    /\ (/\ lastOp.op = "configuration"
        /\ lastOp.fields = {"animate"}
        /\ lastOp.anim /\ ~config.animate
        /\ graph.defined
        /\ pc = "idle")
       => force.alpha = "zero" /\ lastOp.outcome = "reflowed"
    /\ ~config.animate => tickWrites = 0

\* C7 amended: after data has been set with animate on, setting
\* {animate: false} alone stops the simulation and returns without a settle
\* pass, the scene left as the last tick drew it; from then on, while animate
\* stays off, no call of the tick callback writes.
C7_AnimateOffStops ==
    /\ (/\ lastOp.op = "configuration"
        /\ lastOp.fields = {"animate"}
        /\ lastOp.anim /\ ~config.animate
        /\ graph.defined)
       => /\ pc = "idle"
          /\ force.alpha = "zero"
          /\ lastOp.outcome = "done"
    /\ ~config.animate => tickWrites = 0

\* {animate: false} alone has just been set on data that was set with
\* animate on
C7_Witness ==
    /\ lastOp.op = "configuration"
    /\ lastOp.fields = {"animate"}
    /\ lastOp.anim /\ ~config.animate
    /\ graph.defined
    /\ force.alpha = "zero"

\* ------------------------------------------- reference notions for the filter
\* whether t occurs in s as a run of consecutive characters
IsSubstring(t, s) ==
    \E i \in 0..(Len(s) - Len(t)) : SubSeq(s, i + 1, i + Len(t)) = t

\* whether a and b are the same string once case is ignored
EqualIgnoringCase(a, b) ==
    /\ Len(a) = Len(b)
    /\ \A i \in 1..Len(a) : ToUpperCase(a[i]) = ToUpperCase(b[i])

\* C8: filterNodes with the empty search string, called directly, by the
\* search box or by the clear-selection control, leaves every node of the
\* current graph at scale 1, whatever was filtered before and whatever the
\* caseInsensitive option.
C8_EmptyFilterResets ==
    (lastOp.op \in {"filterNodes", "filterInput", "clear"} /\ lastOp.text = <<>>)
    => /\ lastOp.outcome = "done"
       /\ Len(scale) = Len(graph.nodes)
       /\ \A i \in 1..Len(scale) : scale[i] = NoMatchScale

\* the clear-selection control has been pressed, case-sensitive matching on,
\* node 1 named a
C8_Witness ==
    /\ lastOp.op = "clear"
    /\ ~config.caseInsensitive
    /\ Len(scale) = Len(FilterGraph.nodes)
    /\ nodeName[1] = <<"a">>
    /\ scale[1] = NoMatchScale

\* C9: filterNodes never throws; a node with a non-empty name gets scale 3
\* when the search text is its name, metacharacters included, and, with
\* caseInsensitive on, when the search text is its name ignoring case; with
\* caseInsensitive off a node in whose name the search text does not occur
\* with the same case gets scale 1.
C9_ExactMatch ==
    (lastOp.op \in {"filterNodes", "filterInput"} /\ graph.defined)
    => /\ lastOp.outcome = "done"
       /\ Len(scale) = Len(graph.nodes)
       /\ \A i \in 1..Len(graph.nodes) :
             LET name == nodeName[graph.nodes[i]]
                 text == lastOp.text
             IN /\ (name # <<>> /\ text = name) => scale[i] = MatchScale
                /\ (name # <<>> /\ config.caseInsensitive
                      /\ EqualIgnoringCase(text, name))
                   => scale[i] = MatchScale
                /\ (~config.caseInsensitive /\ ~IsSubstring(text, name))
                   => scale[i] = NoMatchScale

\* the search box holds a^, the name of node 1, case-sensitive matching on
C9_Witness ==
    /\ lastOp.op = "filterInput"
    /\ lastOp.text = <<"a", "^">>
    /\ nodeName[1] = lastOp.text
    /\ ~config.caseInsensitive
    /\ Len(scale) = Len(FilterGraph.nodes)
    /\ scale[1] = MatchScale

\* filterNodes("a", true) has run on nodes named Alpha and Beta with
\* caseInsensitive on
AlphaBetaFiltered ==
    /\ lastOp.op = "filterNodes"
    /\ lastOp.text = <<"a">>
    /\ "animate" \in lastOp.fields
    /\ config.caseInsensitive
    /\ graph.defined
    /\ nodeName[graph.nodes[1]] = Alpha
    /\ nodeName[graph.nodes[2]] = Beta

\* C10 as stated: with caseInsensitive on and nodes named Alpha and Beta,
\* filterNodes("a", true) gives Alpha scale 3 and Beta scale 1.
C10_AlphaOnly ==
    AlphaBetaFiltered => scale[1] = MatchScale /\ scale[2] = NoMatchScale

\* C10 amended: with caseInsensitive on and nodes named Alpha and Beta,
\* filterNodes("a", true) gives both Alpha and Beta scale 3, each name
\* holding an a.
C10_AlphaAndBeta ==
    AlphaBetaFiltered => scale[1] = MatchScale /\ scale[2] = MatchScale

\* filterNodes("a", true) has run on Alpha and Beta, the unnamed third node
\* left at scale 1
C10_Witness ==
    /\ AlphaBetaFiltered
    /\ scale[2] = MatchScale
    /\ scale[3] = NoMatchScale

\* ------------------------------------------ reference notion for clamping
\* v brought into [lo, hi]
Clamp(v, lo, hi) == IF v < lo THEN lo ELSE IF v > hi THEN hi ELSE v

\* every simulation parameter lies within its field's bounds
C11_InRange ==
    \A x \in Range(ForceFields) :
        ForceBounds[x].min <= force[x] /\ force[x] <= ForceBounds[x].max

\* a configuration update that changes one simulation field x to v ends
\* without an error, commits v, and pushes v clamped to the bounds of x, or
\* the default of x when the clamped value is zero
C11_Step ==
    \A x \in Range(ForceFields) :
        (/\ pc = "idle"
         /\ lastOp'.op = "configuration"
         /\ lastOp'.fields = {x}
         /\ newConfig'[x] # config[x])
        => LET v == newConfig'[x]
               b == ForceBounds[x]
               c == Clamp(v, b.min, b.max)
           IN /\ lastOp'.outcome # "threw"
              /\ force'[x] = IF c = 0 THEN b.default ELSE c
              /\ b.min <= force'[x] /\ force'[x] <= b.max
              /\ pc' = "idle" => config'[x] = v

C13_ZoomAnyTime ==
    (lastOp.op = "configuration" /\ pc = "idle")
    => /\ lastOp.outcome # "threw"
       /\ graph.defined => zoom = <<config.minZoom, config.maxZoom>>

\* C14: the selection slot never refers to a node outside the current graph:
\* once data has been replaced by a graph that does not hold the selected
\* node, the selection is empty and no node outside the graph is marked
\* selected.
C14_SelectionInGraph ==
    graph.defined =>
        /\ selectedNode # Undefined => selectedNode \in Range(graph.nodes)
        /\ \A n \in NodeIds : selected[n] => n \in Range(graph.nodes)

\* C15: after every drag-move event the dragged node is at the pointer's
\* position and the scene shows it there: its transform and the endpoints of
\* its edges are the new position, whether the simulation runs or is
\* stopped and whether animate is on or off.
C15_DragFollowsPointer ==
    lastOp.op = "drag" =>
        LET n == lastOp.n
        IN /\ pos[n] # Undefined
           /\ \A i \in 1..Len(graph.nodes) :
                 graph.nodes[i] = n => transform[i] = pos[n]
           /\ \A i \in 1..Len(bilinks) :
                 /\ bilinks[i][1] = n => linkEnds[i][1] = pos[n]
                 /\ bilinks[i][3] = n => linkEnds[i][2] = pos[n]

\* C16: dragstart stops the simulation; a drag event leaves the simulation
\* as it is, neither starting nor resuming it; dragend resumes the
\* simulation when animate is on at that moment and leaves it as it is when
\* animate is off.
C16_DragStep ==
    pc = "idle" =>
        /\ lastOp'.op = "dragstart" =>
              force' = [force EXCEPT !.alpha = "zero"] /\ dragging' = lastOp'.n
        /\ lastOp'.op = "drag" => force' = force /\ dragging' = dragging
        /\ lastOp'.op = "dragend" =>
              /\ dragging' = Undefined
              /\ force' = IF config.animate
                          THEN [force EXCEPT !.alpha = "high"]
                          ELSE force

C16_DragProtocol == [][C16_DragStep]_vars

\* a drag has ended with animate off, the simulation still stopped
C16_Witness ==
    /\ lastOp.op = "dragend"
    /\ ~config.animate
    /\ force.alpha = "zero"
    /\ pos[lastOp.n] # Undefined

\* a configuration update that changes caseInsensitive leaves every node's
\* scale at what filterNodes computes for the search box's text under the
\* configuration the update commits
C17_Step ==
    (/\ pc = "idle"
     /\ lastOp'.op = "configuration"
     /\ pc' = "idle"
     /\ config'.caseInsensitive # config.caseInsensitive)
    => scale' = [i \in 1..Len(graph.nodes) |->
                    ScaleFor(filterBox', nodeName[graph.nodes[i]],
                             config'.caseInsensitive)]

\* C17: when a configuration update changes caseInsensitive, the filter is
\* applied again to the current search text in the new case mode: after the
\* update every node's scale is what filterNodes computes for that text
\* under the newly committed configuration.
C17_FilterFollowsCaseMode == [][C17_Step]_vars

\* C18: once the pointer has entered a node every node's label is shown,
\* whatever the labels option; once it has left a node every node's label is
\* shown exactly when the labels option is on; link labels are as setData
\* made them throughout.
C18_HoverLabels ==
    /\ lastOp.op = "mouseover" =>
          \A i \in 1..Len(nodeLabelShown) : nodeLabelShown[i]
    /\ lastOp.op = "mouseout" =>
          \A i \in 1..Len(nodeLabelShown) : nodeLabelShown[i] = config.labels
    /\ \A i \in 1..Len(linkLabelShown) : linkLabelShown[i]

\* a force.tick() made while the configuration setter is running dispatches
\* to no tick callback, unless the current configuration is already the
\* merged one whose side effects have been applied
C19_Step ==
    (pc = "configuration" /\ k' = k + 1 /\ tickRegistered)
    => config = newConfig

\* C19: the tick callback never runs while a configuration update is in
\* progress with the current configuration not yet the one whose side
\* effects have been applied, and never writes to the scene while a
\* configuration update or a data replacement is in progress.
C19_TickSeesCommitted ==
    [](pc # "idle" => tickWrites = 0) /\ [][C19_Step]_vars

\* C20: whenever the committed configuration has animate off and no handler
\* is running, the simulation is not stepping.
C20_StaticWhenAnimateOff ==
    (pc = "idle" /\ ~config.animate) => force.alpha = "zero"

====
